---------------------------- MODULE Spec2Model ----------------------------
(***************************************************************************)
(* Model of src/src/burnchains/mod.rs: burnchain parameters, the PoX       *)
(* constants and their arithmetic, the burnchain transaction accessors,    *)
(* the burnchain view's height->hash map and the error taxonomy.           *)
(*                                                                         *)
(* Unsigned machine integers (u8, u32, u64, u128) are modelled at their    *)
(* real width.  A number is a little-endian sequence of base-256 limbs     *)
(* without leading zero limbs (zero is the empty sequence), so that a      *)
(* value of w bits is exactly a sequence of at most w/8 limbs.             *)
(***************************************************************************)
EXTENDS Integers, Sequences, FiniteSets, TLC

VARIABLES
    overflow_checks,  \* the build profile: whether arithmetic overflow panics
    pox,              \* the PoxConstants value under construction or in use
    view,             \* a BurnchainView
    tx,               \* a BurnchainTransaction
    err,              \* an Error
    call              \* the last call made: its function, arguments and result

vars == <<overflow_checks, pox, view, tx, err, call>>

---------------------------------------------------------------------------
(* Machine integers *)

Radix == 2 ^ 8

RECURSIVE Norm(_)
Norm(s) ==
    IF s = <<>> THEN <<>>
    ELSE IF s[Len(s)] = 0 THEN Norm(SubSeq(s, 1, Len(s) - 1))
    ELSE s

RECURSIVE ToNat(_)
ToNat(n) ==
    IF n = 0 THEN <<>> ELSE <<n % Radix>> \o ToNat(n \div Radix)

RECURSIVE LessFrom(_, _, _)
LessFrom(a, b, i) ==
    IF i = 0 THEN FALSE
    ELSE IF a[i] # b[i] THEN a[i] < b[i]
    ELSE LessFrom(a, b, i - 1)

NatLess(a, b) ==
    IF Len(a) # Len(b) THEN Len(a) < Len(b) ELSE LessFrom(a, b, Len(a))

NatLeq(a, b) == ~NatLess(b, a)

Limb(a, i) == IF i <= Len(a) THEN a[i] ELSE 0

RECURSIVE AddFrom(_, _, _, _)
AddFrom(a, b, i, carry) ==
    IF i > Len(a) /\ i > Len(b)
    THEN (IF carry = 0 THEN <<>> ELSE <<carry>>)
    ELSE LET s == Limb(a, i) + Limb(b, i) + carry
         IN  <<s % Radix>> \o AddFrom(a, b, i + 1, s \div Radix)

NatAdd(a, b) == Norm(AddFrom(a, b, 1, 0))

RECURSIVE SubFrom(_, _, _, _)
SubFrom(a, b, i, borrow) ==
    IF i > Len(a) THEN <<>>
    ELSE LET d == Limb(a, i) - Limb(b, i) - borrow
         IN  IF d < 0
             THEN <<d + Radix>> \o SubFrom(a, b, i + 1, 1)
             ELSE <<d>> \o SubFrom(a, b, i + 1, 0)

\* a - b for b <= a
NatSub(a, b) == Norm(SubFrom(a, b, 1, 0))

RECURSIVE MulLimbFrom(_, _, _, _)
MulLimbFrom(a, k, i, carry) ==
    IF i > Len(a)
    THEN (IF carry = 0 THEN <<>> ELSE <<carry>>)
    ELSE LET s == a[i] * k + carry
         IN  <<s % Radix>> \o MulLimbFrom(a, k, i + 1, s \div Radix)

RECURSIVE NatMul(_, _)
NatMul(a, b) ==
    IF b = <<>> \/ a = <<>> THEN <<>>
    ELSE NatAdd(Norm(MulLimbFrom(a, b[1], 1, 0)),
                Norm(<<0>> \o NatMul(a, Tail(b))))

RECURSIVE DivSmallFrom(_, _, _, _)
DivSmallFrom(a, d, i, rem) ==
    IF i = 0 THEN <<>>
    ELSE LET cur == rem * Radix + a[i]
         IN  DivSmallFrom(a, d, i - 1, cur % d) \o <<cur \div d>>

\* a \div d for a divisor 0 < d < Radix
NatDivSmall(a, d) == Norm(DivSmallFrom(a, d, Len(a), 0))

\* the largest value of a w-bit unsigned integer
MaxOf(w) == [i \in 1 .. (w \div 8) |-> Radix - 1]

\* whether a fits a w-bit unsigned integer
Fits(a, w) == Len(a) <= w \div 8

\* a modulo 2^w: what a wrapping operation keeps
Wrap(a, w) ==
    Norm(SubSeq(a, 1, IF Len(a) <= w \div 8 THEN Len(a) ELSE w \div 8))

Ok(v) == [tag |-> "Ok", val |-> v]
Panic == [tag |-> "Panic"]

\* An unchecked +, - or * on w-bit integers whose exact result is `exact`:
\* on overflow it panics in a build with overflow checks and wraps in one
\* without them.
Unchecked(exact, w) ==
    IF Fits(exact, w) THEN Ok(exact)
    ELSE IF overflow_checks THEN Panic
    ELSE Ok(Wrap(exact, w))

\* a - b on w-bit integers, unchecked
UncheckedSub(a, b, w) ==
    IF NatLeq(b, a) THEN Ok(NatSub(a, b))
    ELSE IF overflow_checks THEN Panic
    ELSE Ok(NatSub(NatAdd(a, NatAdd(MaxOf(w), ToNat(1))), b))

NoCall == [fn |-> "none"]

\* A panic ends the thread: nothing is called after it.
Alive == IF call.fn = "none" THEN TRUE ELSE call.ret # Panic

---------------------------------------------------------------------------
(* Compiled-in constants of other modules *)

BITCOIN_MAINNET_FIRST_BLOCK_HEIGHT == 666050
BITCOIN_TESTNET_FIRST_BLOCK_HEIGHT == 2000000
BITCOIN_REGTEST_FIRST_BLOCK_HEIGHT == 0
BITCOIN_MAINNET_INITIAL_REWARD_START_BLOCK == BITCOIN_MAINNET_FIRST_BLOCK_HEIGHT
POX_REWARD_CYCLE_LENGTH == 2100
POX_PREPARE_WINDOW_LENGTH == 100
POX_SUNSET_START == 100000
POX_SUNSET_END == 500000
OUTPUTS_PER_COMMIT == 2
MAX_NEIGHBOR_BLOCK_DELAY == 288

---------------------------------------------------------------------------
(* PoxConstants *)

NoPox == [none |-> TRUE]

\* new with the anchor threshold compared by >= instead of >
new_anchor_geq(reward_cycle_length, prepare_length, anchor_threshold, pox_rejection_fraction, pox_participation_threshold_pct, sunset_start, sunset_end) ==
    IF NatLess(anchor_threshold, NatDivSmall(prepare_length, 2)) THEN Panic
    ELSE IF ~NatLess(prepare_length, reward_cycle_length) THEN Panic
    ELSE IF ~NatLeq(sunset_start, sunset_end) THEN Panic
    ELSE Ok([reward_cycle_length |-> reward_cycle_length,
             prepare_length |-> prepare_length,
             anchor_threshold |-> anchor_threshold,
             pox_rejection_fraction |-> pox_rejection_fraction,
             pox_participation_threshold_pct |-> pox_participation_threshold_pct,
             sunset_end |-> sunset_end,
             sunset_start |-> sunset_start])

new(reward_cycle_length, prepare_length, anchor_threshold, pox_rejection_fraction, pox_participation_threshold_pct, sunset_start, sunset_end) ==
    IF ~NatLess(NatDivSmall(prepare_length, 2), anchor_threshold) THEN Panic
    ELSE IF ~NatLess(prepare_length, reward_cycle_length) THEN Panic
    ELSE IF ~NatLeq(sunset_start, sunset_end) THEN Panic
    ELSE Ok([reward_cycle_length |-> reward_cycle_length,
             prepare_length |-> prepare_length,
             anchor_threshold |-> anchor_threshold,
             pox_rejection_fraction |-> pox_rejection_fraction,
             pox_participation_threshold_pct |-> pox_participation_threshold_pct,
             sunset_end |-> sunset_end,
             sunset_start |-> sunset_start])

\* (self.reward_cycle_length - self.prepare_length) * (OUTPUTS_PER_COMMIT as u32)
reward_slots(self) ==
    LET d == UncheckedSub(self.reward_cycle_length, self.prepare_length, 32)
    IN  IF d.tag = "Panic" THEN Panic
        ELSE Unchecked(NatMul(d.val, Wrap(ToNat(OUTPUTS_PER_COMMIT), 32)), 32)

None == [tag |-> "None"]
Some(v) == [tag |-> "Some", val |-> v]

\* checked_mul replaced by wrapping_mul
wrapping_mul(a, b) == Some(Wrap(NatMul(a, b), 128))

\* checked_mul on operands narrowed to 32 bits
checked_mul_u32(a, b) ==
    LET m == NatMul(a, b) IN IF Fits(m, 32) THEN Some(m) ELSE None

\* u128::checked_mul
checked_mul(a, b) ==
    LET m == NatMul(a, b) IN IF Fits(m, 128) THEN Some(m) ELSE None

\* enough_participation without the scaling of the participating amount by 100
enough_participation_unscaled(self, participating_ustx, liquid_ustx) ==
    LET rhs == checked_mul(liquid_ustx, self.pox_participation_threshold_pct)
    IN  IF rhs.tag = "None" THEN Panic
        ELSE Ok(NatLess(rhs.val, participating_ustx))

enough_participation(self, participating_ustx, liquid_ustx) ==
    LET lhs == checked_mul(participating_ustx, ToNat(100))
    IN  IF lhs.tag = "None" THEN Panic
        ELSE LET rhs == checked_mul(liquid_ustx,
                                    self.pox_participation_threshold_pct)
             IN  IF rhs.tag = "None" THEN Panic
                 ELSE Ok(NatLess(rhs.val, lhs.val))

\* a + b on u64 constants (the compiler rejects a constant sum that overflows)
AddU64(a, b) == Unchecked(NatAdd(ToNat(a), ToNat(b)), 64).val

\* mainnet_default with an anchor threshold of half the prepare window
mainnet_default_low_anchor ==
    new(ToNat(POX_REWARD_CYCLE_LENGTH), ToNat(POX_PREPARE_WINDOW_LENGTH),
        ToNat(50), ToNat(25), ToNat(5),
        AddU64(BITCOIN_MAINNET_FIRST_BLOCK_HEIGHT, POX_SUNSET_START),
        AddU64(BITCOIN_MAINNET_FIRST_BLOCK_HEIGHT, POX_SUNSET_END))

mainnet_default ==
    new(ToNat(POX_REWARD_CYCLE_LENGTH), ToNat(POX_PREPARE_WINDOW_LENGTH),
        ToNat(80), ToNat(25), ToNat(5),
        AddU64(BITCOIN_MAINNET_FIRST_BLOCK_HEIGHT, POX_SUNSET_START),
        AddU64(BITCOIN_MAINNET_FIRST_BLOCK_HEIGHT, POX_SUNSET_END))

testnet_default ==
    new(ToNat(POX_REWARD_CYCLE_LENGTH \div 2),
        ToNat(POX_PREPARE_WINDOW_LENGTH \div 2),
        ToNat(40), ToNat(12), ToNat(2),
        AddU64(BITCOIN_TESTNET_FIRST_BLOCK_HEIGHT, POX_SUNSET_START),
        AddU64(BITCOIN_TESTNET_FIRST_BLOCK_HEIGHT, POX_SUNSET_END))

regtest_default ==
    new(ToNat(5), ToNat(1), ToNat(1),
        NatAdd(NatMul(ToNat(33333333), ToNat(100000000)), ToNat(33333333)),
        ToNat(1),
        AddU64(BITCOIN_REGTEST_FIRST_BLOCK_HEIGHT, POX_SUNSET_START),
        AddU64(BITCOIN_REGTEST_FIRST_BLOCK_HEIGHT, POX_SUNSET_END))

---------------------------------------------------------------------------
(* Inputs *)

MaxSmall == 3

U32Inputs == {ToNat(i) : i \in 0 .. MaxSmall} \cup {MaxOf(32)}
U64Inputs == {ToNat(0), ToNat(1), MaxOf(64)}
PctInputs == {ToNat(0), ToNat(1), ToNat(5), ToNat(99), ToNat(100), MaxOf(64)}

\* "total liquid supply is 40000000000000000 uSTX"
TotalLiquidSupply == NatMul(ToNat(4), NatMul(ToNat(100000000), ToNat(100000000)))

\* the largest u128 whose product with 100 fits a u128
MaxTimes100 == NatDivSmall(MaxOf(128), 100)

U128Inputs ==
    {ToNat(i) : i \in 0 .. MaxSmall}
        \cup {TotalLiquidSupply, MaxOf(64), NatAdd(MaxOf(64), ToNat(1)),
              MaxTimes100, NatAdd(MaxTimes100, ToNat(1)), MaxOf(128)}

---------------------------------------------------------------------------
(* Calls on PoxConstants *)

CallNew ==
    /\ Alive
    /\ pox = NoPox
    /\ \E rcl \in U32Inputs, pl \in U32Inputs, at \in U32Inputs,
          pct \in {ToNat(0), ToNat(5), MaxOf(64)},
          ss \in U64Inputs, se \in U64Inputs :
          LET r == new(rcl, pl, at, ToNat(25), pct, ss, se)
          IN  /\ call' = [fn |-> "new",
                          args |-> <<rcl, pl, at, ToNat(25), pct, ss, se>>,
                          ret |-> r]
              /\ pox' = IF r.tag = "Ok" THEN r.val ELSE pox
    /\ UNCHANGED <<overflow_checks, view, tx, err>>

CallDefault(name, r) ==
    /\ Alive
    /\ pox = NoPox
    /\ call' = [fn |-> name, args |-> <<>>, ret |-> r]
    /\ pox' = IF r.tag = "Ok" THEN r.val ELSE pox
    /\ UNCHANGED <<overflow_checks, view, tx, err>>

CallMainnetDefault == CallDefault("mainnet_default", mainnet_default)
CallTestnetDefault == CallDefault("testnet_default", testnet_default)
CallRegtestDefault == CallDefault("regtest_default", regtest_default)

CallRewardSlots ==
    /\ Alive
    /\ pox # NoPox
    /\ call' = [fn |-> "reward_slots", args |-> <<>>, ret |-> reward_slots(pox)]
    /\ UNCHANGED <<overflow_checks, pox, view, tx, err>>

CallEnoughParticipation ==
    /\ Alive
    /\ pox # NoPox
    /\ \E p \in U128Inputs, l \in U128Inputs :
          call' = [fn |-> "enough_participation", args |-> <<p, l>>,
                   ret |-> enough_participation(pox, p, l)]
    /\ UNCHANGED <<overflow_checks, pox, view, tx, err>>

---------------------------------------------------------------------------
(* BurnchainParameters *)

bitcoin_mainnet ==
    [chain_name |-> "bitcoin", network_name |-> "mainnet", network_id |-> 0,
     stable_confirmations |-> 7, consensus_hash_lifetime |-> 24,
     first_block_height |-> BITCOIN_MAINNET_FIRST_BLOCK_HEIGHT,
     first_block_hash |-> "BITCOIN_MAINNET_FIRST_BLOCK_HASH",
     first_block_timestamp |-> "BITCOIN_MAINNET_FIRST_BLOCK_TIMESTAMP",
     initial_reward_start_block |-> BITCOIN_MAINNET_INITIAL_REWARD_START_BLOCK]

bitcoin_testnet ==
    [chain_name |-> "bitcoin", network_name |-> "testnet", network_id |-> 1,
     stable_confirmations |-> 7, consensus_hash_lifetime |-> 24,
     first_block_height |-> BITCOIN_TESTNET_FIRST_BLOCK_HEIGHT,
     first_block_hash |-> "BITCOIN_TESTNET_FIRST_BLOCK_HASH",
     first_block_timestamp |-> "BITCOIN_TESTNET_FIRST_BLOCK_TIMESTAMP",
     initial_reward_start_block |-> BITCOIN_TESTNET_FIRST_BLOCK_HEIGHT - 10000]

bitcoin_regtest ==
    [chain_name |-> "bitcoin", network_name |-> "regtest", network_id |-> 2,
     stable_confirmations |-> 1, consensus_hash_lifetime |-> 24,
     first_block_height |-> BITCOIN_REGTEST_FIRST_BLOCK_HEIGHT,
     first_block_hash |-> "BITCOIN_REGTEST_FIRST_BLOCK_HASH",
     first_block_timestamp |-> "BITCOIN_REGTEST_FIRST_BLOCK_TIMESTAMP",
     initial_reward_start_block |-> BITCOIN_REGTEST_FIRST_BLOCK_HEIGHT]

\* from_params matching on the network name alone
from_params_any_chain(chain, network) ==
    IF network = "mainnet" THEN Some(bitcoin_mainnet)
    ELSE IF network = "testnet" THEN Some(bitcoin_testnet)
    ELSE IF network = "regtest" THEN Some(bitcoin_regtest)
    ELSE None

from_params(chain, network) ==
    IF chain = "bitcoin" /\ network = "mainnet" THEN Some(bitcoin_mainnet)
    ELSE IF chain = "bitcoin" /\ network = "testnet" THEN Some(bitcoin_testnet)
    ELSE IF chain = "bitcoin" /\ network = "regtest" THEN Some(bitcoin_regtest)
    ELSE None

ChainInputs ==
    {"bitcoin", "Bitcoin", "BITCOIN", "bitcoin ", "", "btc", "ethereum",
     "stacks", "litecoin", "mainnet"}
NetworkInputs ==
    {"mainnet", "testnet", "regtest", "Mainnet", "", "main", "devnet",
     "signet", "mocknet", "bitcoin"}

CallFromParams ==
    /\ \E chain \in ChainInputs, network \in NetworkInputs :
          call' = [fn |-> "from_params", args |-> <<chain, network>>,
                   ret |-> from_params(chain, network)]
    /\ UNCHANGED <<overflow_checks, pox, view, tx, err>>

---------------------------------------------------------------------------
(* BurnchainTransaction *)

NoTx == [none |-> TRUE]

StacksBase(op) == [variant |-> "StacksBase", op |-> op]

txid(self) == self.op.txid
\* vtxindex reading the opcode field
vtxindex_opcode(self) == self.op.opcode
vtxindex(self) == self.op.event_index
opcode(self) == self.op.opcode
get_burn_amount(self) == ToNat(0)

StacksHyperOps ==
    [txid : {"txid_00", "txid_ab", "txid_ff"},
     in_block : {"block_1", "block_2"},
     opcode : {ToNat(0), ToNat(60), MaxOf(8)},
     event_index : {ToNat(0), ToNat(1), MaxOf(32)},
     event : {[subnet_block_hash |-> h] : h \in {"subnet_1", "subnet_2"}}]

ConstructTx ==
    /\ tx = NoTx
    /\ \E op \in StacksHyperOps :
          /\ tx' = StacksBase(op)
          /\ call' = [fn |-> "StacksBase", args |-> <<op>>, ret |-> tx']
    /\ UNCHANGED <<overflow_checks, pox, view, err>>

CallAccessor(name, r) ==
    /\ tx # NoTx
    /\ call' = [fn |-> name, args |-> <<tx>>, ret |-> r]
    /\ UNCHANGED <<overflow_checks, pox, view, tx, err>>

CallTxid == CallAccessor("txid", txid(tx))
CallVtxindex == CallAccessor("vtxindex", vtxindex(tx))
CallOpcode == CallAccessor("opcode", opcode(tx))
CallGetBurnAmount == CallAccessor("get_burn_amount", get_burn_amount(tx))

---------------------------------------------------------------------------
(* Error *)

NoErr == [none |-> TRUE]

\* The text a payload's own Display implementation writes.
DisplayOf(type, value) == [display_of |-> type, value |-> value]
\* A literal piece of text.
Lit(text) == [lit |-> text]

Unit(kind) == [kind |-> kind]
With(kind, payload) == [kind |-> kind, payload |-> payload]

SqliteErrors == {"SqliteFailure", "QueryReturnedNoRows"}
DbErrors ==
    {With("SqliteError", e) : e \in SqliteErrors}
        \cup {Unit("NotFoundError"), Unit("Corruption"), Unit("ParseError")}
IoErrors == {"NotFound", "PermissionDenied"}
OpErrors == {"ParseError", "BlockCommitBadInput"}
Hashes == {"H1", "H2"}
PoxIds == {"1", "11"}

UnitKinds ==
    {"UnsupportedBurnchain", "ParseError", "ThreadChannelError",
     "MissingHeaders", "MissingParentBlock", "BurnchainPeerBroken",
     "TrySyncAgain", "CoordinatorClosed"}

Errors ==
    {Unit(k) : k \in UnitKinds}
        \cup {With("Bitcoin", m) : m \in {"", "connection refused"}}
        \cup {With("DownloadError", m) : m \in {"", "timed out"}}
        \cup {With("DBError", e) : e \in DbErrors}
        \cup {With("FSError", e) : e \in IoErrors}
        \cup {With("OpError", e) : e \in OpErrors}
        \cup {With("UnknownBlock", h) : h \in Hashes}
        \cup {With("NonCanonicalPoxId", <<a, b>>) : a \in PoxIds, b \in PoxIds}

fmt(self) ==
    CASE self.kind = "UnsupportedBurnchain" -> <<Lit("Unsupported burnchain")>>
      [] self.kind = "Bitcoin" -> <<Lit(self.payload)>>
      [] self.kind = "DBError" -> <<DisplayOf("db_error", self.payload)>>
      [] self.kind = "DownloadError" -> <<Lit(self.payload)>>
      [] self.kind = "ParseError" -> <<Lit("Parse error")>>
      [] self.kind = "MissingHeaders" -> <<Lit("Missing block headers")>>
      [] self.kind = "MissingParentBlock" -> <<Lit("Missing parent block")>>
      [] self.kind = "ThreadChannelError" -> <<Lit("Error in thread channel")>>
      [] self.kind = "BurnchainPeerBroken" ->
            <<Lit("Remote burnchain peer has misbehaved")>>
      [] self.kind = "FSError" -> <<DisplayOf("io::Error", self.payload)>>
      [] self.kind = "OpError" -> <<DisplayOf("op_error", self.payload)>>
      [] self.kind = "TrySyncAgain" -> <<Lit("Try synchronizing again")>>
      [] self.kind = "UnknownBlock" ->
            <<Lit("Unknown burnchain block "),
              DisplayOf("BurnchainHeaderHash", self.payload)>>
      [] self.kind = "NonCanonicalPoxId" ->
            <<DisplayOf("PoxId", self.payload[1]),
              Lit(" is not a descendant of the canonical parent PoXId: "),
              DisplayOf("PoxId", self.payload[2])>>
      [] self.kind = "CoordinatorClosed" ->
            <<Lit("ChainsCoordinator channel hung up")>>

\* cause without the OpError arm
cause_no_op_error(self) ==
    CASE self.kind = "DBError" -> Some(self.payload)
      [] self.kind = "FSError" -> Some(self.payload)
      [] OTHER -> None

cause(self) ==
    CASE self.kind = "DBError" -> Some(self.payload)
      [] self.kind = "FSError" -> Some(self.payload)
      [] self.kind = "OpError" -> Some(self.payload)
      [] OTHER -> None

from_db_error(e) == With("DBError", e)
from_sqlite_error(e) == With("DBError", With("SqliteError", e))

ConstructError ==
    /\ err = NoErr
    /\ \E e \in Errors :
          /\ err' = e
          /\ call' = [fn |-> "Error", args |-> <<e>>, ret |-> e]
    /\ UNCHANGED <<overflow_checks, pox, view, tx>>

FromDbError ==
    /\ err = NoErr
    /\ \E e \in DbErrors :
          /\ err' = from_db_error(e)
          /\ call' = [fn |-> "from_db_error", args |-> <<e>>, ret |-> err']
    /\ UNCHANGED <<overflow_checks, pox, view, tx>>

FromSqliteError ==
    /\ err = NoErr
    /\ \E e \in SqliteErrors :
          /\ err' = from_sqlite_error(e)
          /\ call' = [fn |-> "from_sqlite_error", args |-> <<e>>, ret |-> err']
    /\ UNCHANGED <<overflow_checks, pox, view, tx>>

CallFmt ==
    /\ err # NoErr
    /\ call' = [fn |-> "fmt", args |-> <<>>, ret |-> fmt(err)]
    /\ UNCHANGED <<overflow_checks, pox, view, tx, err>>

CallCause ==
    /\ err # NoErr
    /\ call' = [fn |-> "cause", args |-> <<>>, ret |-> cause(err)]
    /\ UNCHANGED <<overflow_checks, pox, view, tx, err>>

---------------------------------------------------------------------------
(* BurnchainView *)

\* BurnchainHeaderHash of the SHA-256 of i.to_le_bytes()
Sha256Hash(i) == [sha256_of |-> i]
\* a BurnchainHeaderHash given by its bytes
Hash(name) == [bytes |-> name]

RECURSIVE ToInt(_)
ToInt(a) == IF a = <<>> THEN 0 ELSE a[1] + Radix * ToInt(Tail(a))

\* the heights the range lo .. hi yields (hi excluded)
Range(lo, hi) ==
    IF ~NatLess(lo, hi) THEN {}
    ELSE {NatAdd(lo, ToNat(k)) : k \in 0 .. (ToInt(NatSub(hi, lo)) - 1)}

\* make_test_data over the range oldest_height .. burn_block_height
make_test_data_without_tip(self) ==
    LET delay == ToNat(MAX_NEIGHBOR_BLOCK_DELAY)
        oldest_height ==
            IF NatLess(self.burn_stable_block_height, delay) THEN ToNat(0)
            ELSE NatSub(self.burn_stable_block_height, delay)
    IN  Ok([self EXCEPT !.last_burn_block_hashes =
                [i \in Range(oldest_height, self.burn_block_height) |->
                    IF i = self.burn_stable_block_height
                    THEN self.burn_stable_block_hash
                    ELSE IF i = self.burn_block_height
                    THEN self.burn_block_hash
                    ELSE Sha256Hash(i)]])

make_test_data(self) ==
    LET delay == ToNat(MAX_NEIGHBOR_BLOCK_DELAY)
        oldest_height ==
            IF NatLess(self.burn_stable_block_height, delay) THEN ToNat(0)
            ELSE NatSub(self.burn_stable_block_height, delay)
        end == Unchecked(NatAdd(self.burn_block_height, ToNat(1)), 64)
    IN  IF end.tag = "Panic" THEN Panic
        ELSE Ok([self EXCEPT !.last_burn_block_hashes =
                    [i \in Range(oldest_height, end.val) |->
                        IF i = self.burn_stable_block_height
                        THEN self.burn_stable_block_hash
                        ELSE IF i = self.burn_block_height
                        THEN self.burn_block_hash
                        ELSE Sha256Hash(i)]])

MaxGap == 2

StableHeights ==
    {ToNat(0), ToNat(1), ToNat(93), ToNat(MAX_NEIGHBOR_BLOCK_DELAY - 1),
     ToNat(MAX_NEIGHBOR_BLOCK_DELAY), ToNat(MAX_NEIGHBOR_BLOCK_DELAY + 1),
     NatSub(MaxOf(64), ToNat(1)), MaxOf(64)}

\* tip heights at, above and (when there is one) just below a stable height
TipHeights(stable) ==
    {h \in {NatAdd(stable, ToNat(g)) : g \in (0 .. MaxGap) \cup {7}} : Fits(h, 64)}
        \cup (IF stable = ToNat(0) THEN {} ELSE {NatSub(stable, ToNat(1))})

StaleMaps ==
    {[i \in {} |-> Hash("H1")], [i \in {MaxOf(64)} |-> Hash("stale")]}

Views ==
    UNION {{[burn_block_height |-> t, burn_block_hash |-> Hash("H1"),
             burn_stable_block_height |-> s, burn_stable_block_hash |-> Hash(h2),
             last_burn_block_hashes |-> m] :
                t \in TipHeights(s), h2 \in {"H1", "H2"}, m \in StaleMaps} :
           s \in StableHeights}

NoView == [none |-> TRUE]

ConstructView ==
    /\ view = NoView
    /\ \E v \in Views :
          /\ view' = v
          /\ call' = [fn |-> "BurnchainView", args |-> <<v>>, ret |-> v]
    /\ UNCHANGED <<overflow_checks, pox, tx, err>>

CallMakeTestData ==
    /\ Alive
    /\ view # NoView
    /\ LET r == make_test_data(view)
       IN  /\ call' = [fn |-> "make_test_data", args |-> <<view>>,
                           ret |-> IF r.tag = "Ok" THEN Ok(<<>>) ELSE Panic]
           /\ view' = IF r.tag = "Ok" THEN r.val ELSE view
    /\ UNCHANGED <<overflow_checks, pox, tx, err>>

---------------------------------------------------------------------------
(* Specifications *)

Init ==
    /\ overflow_checks \in BOOLEAN
    /\ pox = NoPox
    /\ view = NoView
    /\ tx = NoTx
    /\ err = NoErr
    /\ call = NoCall

NextPox ==
    \/ CallNew
    \/ CallMainnetDefault
    \/ CallTestnetDefault
    \/ CallRegtestDefault
    \/ CallRewardSlots

NextTx ==
    \/ ConstructTx
    \/ CallTxid
    \/ CallVtxindex
    \/ CallOpcode
    \/ CallGetBurnAmount

NextError ==
    \/ ConstructError
    \/ FromDbError
    \/ FromSqliteError
    \/ CallFmt
    \/ CallCause

NextView ==
    \/ ConstructView
    \/ CallMakeTestData

Next ==
    \/ NextPox
    \/ CallEnoughParticipation
    \/ CallFromParams
    \/ NextTx
    \/ NextError
    \/ NextView

Spec == Init /\ [][Next]_vars

\* The parts of the module share no state, so each is explored on its own:
\* the specifications below are Spec with the actions of one part.

\* construction of PoX constants and the reward-slot count
SpecPox == Init /\ [][NextPox]_vars

\* the participation decision, on the constants test_default() builds with
\* each participation threshold, and on the three canonical sets
ThresholdPoxValues ==
    {new(ToNat(10), ToNat(5), ToNat(3), ToNat(25), pct, ToNat(5000), ToNat(10000)).val : pct \in PctInputs}

InitParticipation ==
    /\ overflow_checks \in BOOLEAN
    /\ pox \in ThresholdPoxValues
                \cup {mainnet_default.val, testnet_default.val, regtest_default.val}
    /\ view = NoView
    /\ tx = NoTx
    /\ err = NoErr
    /\ call = NoCall

SpecParticipation == InitParticipation /\ [][CallEnoughParticipation]_vars

SpecParams == Init /\ [][CallFromParams]_vars

SpecTx == Init /\ [][NextTx]_vars

SpecError == Init /\ [][NextError]_vars

SpecView == Init /\ [][NextView]_vars

---------------------------------------------------------------------------
(* Properties of PoxConstants, under SpecPox *)

\* anchor_threshold > prepare_length/2 (stated without the division: for
\* integers, at > pl \div 2 exactly when 2 * at > pl), prepare_length <
\* reward_cycle_length, and sunset_start <= sunset_end
StructuralInvariants(rcl, pl, at, ss, se) ==
    /\ NatLess(pl, NatAdd(at, at))
    /\ NatLess(pl, rcl)
    /\ ~NatLess(se, ss)

C4_RewardSlotsExact ==
    call.fn = "reward_slots" =>
        call.ret = Ok(NatMul(NatSub(pox.reward_cycle_length, pox.prepare_length),
                             ToNat(OUTPUTS_PER_COMMIT)))

GenesisOf(name) ==
    CASE name = "mainnet_default" -> BITCOIN_MAINNET_FIRST_BLOCK_HEIGHT
      [] name = "testnet_default" -> BITCOIN_TESTNET_FIRST_BLOCK_HEIGHT
      [] name = "regtest_default" -> BITCOIN_REGTEST_FIRST_BLOCK_HEIGHT

\* C7: mainnet_default(), testnet_default() and regtest_default() complete
\* without panicking; the value returned satisfies the three structural
\* invariants, and its sunset window is the network's genesis height plus
\* the fixed sunset start and end offsets.
C7_DefaultsConstruct ==
    call.fn \in {"mainnet_default", "testnet_default", "regtest_default"} =>
        /\ call.ret.tag = "Ok"
        /\ pox = call.ret.val
        /\ StructuralInvariants(pox.reward_cycle_length, pox.prepare_length,
                                pox.anchor_threshold, pox.sunset_start,
                                pox.sunset_end)
        /\ pox.sunset_start = ToNat(GenesisOf(call.fn) + POX_SUNSET_START)
        /\ pox.sunset_end = ToNat(GenesisOf(call.fn) + POX_SUNSET_END)

\* mainnet_default() has returned a value
C7_Witness ==
    /\ call.fn = "mainnet_default"
    /\ call.ret.tag = "Ok"
    /\ pox.anchor_threshold = ToNat(80)

---------------------------------------------------------------------------
(* Properties of enough_participation, under SpecParticipation *)

Participating == call.args[1]
Liquid == call.args[2]
ThresholdPct == pox.pox_participation_threshold_pct

\* one of the two exact products exceeds the largest u128
ProductOverflows ==
    \/ NatLess(MaxOf(128), NatMul(Participating, ToNat(100)))
    \/ NatLess(MaxOf(128), NatMul(Liquid, ThresholdPct))

\* C2: enough_participation(participating, liquid) returns true if and only
\* if participating * 100 > liquid * participation_threshold_pct in exact
\* arithmetic, and panics exactly when one of the two products does not fit
\* in 128 bits; with participating = 0 and a threshold above 0 it never
\* returns true.
C2_EnoughParticipationExact ==
    call.fn = "enough_participation" =>
        /\ (call.ret = Panic) <=> ProductOverflows
        /\ ~ProductOverflows =>
              /\ call.ret.tag = "Ok"
              /\ call.ret.val <=>
                    NatLess(NatMul(Liquid, ThresholdPct),
                            NatMul(Participating, ToNat(100)))
        /\ (Participating = ToNat(0) /\ ThresholdPct # ToNat(0)) =>
              call.ret \in {Ok(FALSE), Panic}

\* a call whose first product is the least one that overflows has panicked
C2_Witness ==
    /\ call.fn = "enough_participation"
    /\ Participating = NatAdd(MaxTimes100, ToNat(1))
    /\ Liquid = ToNat(0)
    /\ call.ret = Panic

\* C3, as claimed: with a threshold below 100, enough_participation(liquid,
\* liquid) is true for every liquid.
C3_FullParticipationAlwaysEnough ==
    (/\ call.fn = "enough_participation"
     /\ Participating = Liquid
     /\ NatLess(ThresholdPct, ToNat(100))) =>
        call.ret = Ok(TRUE)

\* C3, amended: with a threshold below 100, enough_participation(liquid,
\* liquid) is true for every liquid > 0 whose product with 100 fits in 128
\* bits (for liquid = 0 it is false, and beyond that range it panics).
C3_FullParticipationEnough ==
    (/\ call.fn = "enough_participation"
     /\ Participating = Liquid
     /\ NatLess(ThresholdPct, ToNat(100))
     /\ Liquid # ToNat(0)
     /\ NatLeq(Liquid, MaxTimes100)) =>
        call.ret = Ok(TRUE)

\* full participation of the whole liquid supply under a threshold of 99
C3_Witness ==
    /\ call.fn = "enough_participation"
    /\ Participating = TotalLiquidSupply
    /\ Liquid = TotalLiquidSupply
    /\ ThresholdPct = ToNat(99)
    /\ call.ret = Ok(TRUE)

\* C5: with participating and liquid at most the total liquid supply of
\* 4 * 10^16 uSTX and a threshold of at most 100, enough_participation does
\* not panic: it returns a boolean.
C5_NoOverflowAtLiquidSupply ==
    (/\ call.fn = "enough_participation"
     /\ NatLeq(Participating, TotalLiquidSupply)
     /\ NatLeq(Liquid, TotalLiquidSupply)
     /\ NatLeq(ThresholdPct, ToNat(100))) =>
        call.ret \in {Ok(TRUE), Ok(FALSE)}

\* the whole liquid supply on both sides, under a threshold of 100
C5_Witness ==
    /\ call.fn = "enough_participation"
    /\ Participating = TotalLiquidSupply
    /\ Liquid = TotalLiquidSupply
    /\ ThresholdPct = ToNat(100)
    /\ call.ret = Ok(FALSE)

---------------------------------------------------------------------------
(* Properties of BurnchainParameters, under SpecParams *)

---------------------------------------------------------------------------
(* Properties of BurnchainTransaction, under SpecTx *)

\* C9: on a BurnchainTransaction built from a StacksHyperOp, txid() is the
\* wrapped txid, vtxindex() the wrapped event_index, opcode() the wrapped
\* opcode and get_burn_amount() is 0, and the call leaves the value as it
\* was.
C9_AccessorsPassThrough ==
    call.fn \in {"txid", "vtxindex", "opcode", "get_burn_amount"} =>
        /\ tx = call.args[1]
        /\ call.fn = "txid" => call.ret = tx.op.txid
        /\ call.fn = "vtxindex" => call.ret = tx.op.event_index
        /\ call.fn = "opcode" => call.ret = tx.op.opcode
        /\ call.fn = "get_burn_amount" => call.ret = ToNat(0)

\* vtxindex() has returned the largest event index, on an operation whose
\* opcode differs from it
C9_Witness ==
    /\ call.fn = "vtxindex"
    /\ tx.op.event_index = MaxOf(32)
    /\ tx.op.opcode = ToNat(60)
    /\ call.ret = MaxOf(32)

---------------------------------------------------------------------------
(* Properties of Error, under SpecError *)

Wrapping == {"DBError", "FSError", "OpError"}

PayloadType(kind) ==
    CASE kind = "DBError" -> "db_error"
      [] kind = "FSError" -> "io::Error"
      [] kind = "OpError" -> "op_error"

\* C10: a db_error converts to Error::DBError holding that error, a sqlite
\* error to Error::DBError holding it wrapped as db_error::SqliteError; the
\* Display text of a DBError, FSError or OpError is the Display text of the
\* error it wraps; cause() returns the wrapped error for exactly these three
\* kinds and nothing for every other kind.
C10_ErrorConversionsLossless ==
    /\ call.fn = "from_db_error" =>
          /\ call.ret = err
          /\ err.kind = "DBError"
          /\ err.payload = call.args[1]
    /\ call.fn = "from_sqlite_error" =>
          /\ call.ret = err
          /\ err.kind = "DBError"
          /\ err.payload.kind = "SqliteError"
          /\ err.payload.payload = call.args[1]
    /\ (call.fn = "fmt" /\ err.kind \in Wrapping) =>
          call.ret = <<DisplayOf(PayloadType(err.kind), err.payload)>>
    /\ call.fn = "cause" =>
          call.ret = (IF err.kind \in Wrapping THEN Some(err.payload) ELSE None)

\* cause() has returned the operation error an OpError wraps
C10_Witness ==
    /\ call.fn = "cause"
    /\ err.kind = "OpError"
    /\ call.ret = Some("ParseError")

---------------------------------------------------------------------------
(* Properties of BurnchainView, under SpecView *)

Before == call.args[1]
Tip == Before.burn_block_height
Stable == Before.burn_stable_block_height
Delay == ToNat(MAX_NEIGHBOR_BLOCK_DELAY)
\* max(0, stable height - delay)
Oldest == IF NatLeq(Stable, Delay) THEN ToNat(0) ELSE NatSub(Stable, Delay)

\* the map's key set is exactly the heights from Oldest to Tip: every key
\* lies between them, and there are Tip - Oldest + 1 keys
KeysAreOldestToTip ==
    LET keys == DOMAIN view.last_burn_block_hashes
    IN  /\ \A h \in keys : NatLeq(Oldest, h) /\ NatLeq(h, Tip)
        /\ ToNat(Cardinality(keys)) = NatAdd(NatSub(Tip, Oldest), ToNat(1))

HeightsAndHashesKept ==
    /\ view.burn_block_height = Before.burn_block_height
    /\ view.burn_block_hash = Before.burn_block_hash
    /\ view.burn_stable_block_height = Before.burn_stable_block_height
    /\ view.burn_stable_block_hash = Before.burn_stable_block_hash

=============================================================================
